---- MODULE Spec2Model ----
(***************************************************************************)
(* job-radar (src/main.py): one batch run fetches postings from six        *)
(* sources, dedupes them by apply_url, scores them against the profile in  *)
(* config.yaml, selects the unseen postings above the threshold, sends     *)
(* them to Telegram and then records their URLs in seen.json.              *)
(*                                                                         *)
(* Python str values are TLA+ strings; TLC evaluates Len, SubSeq, \o and   *)
(* Tail on them.  Python lists are sequences, Python sets are sets, None   *)
(* is Null.                                                                *)
(***************************************************************************)
EXTENDS Integers, Sequences, FiniteSets, TLC

Null == "<None>"

(***************************************************************************)
(* Text helpers                                                            *)
(***************************************************************************)
Upper == "ABCDEFGHIJKLMNOPQRSTUVWXYZ"
Lower == "abcdefghijklmnopqrstuvwxyz"
Digits == "0123456789"

\* str: x in s for a one-character x
HasChar(s, c) == \E i \in 1..Len(s) : SubSeq(s, i, i) = c

Chars(s) == {SubSeq(s, i, i) : i \in 1..Len(s)}
UpperChars == Chars(Upper)
WordChars == Chars(Upper) \cup Chars(Lower) \cup Chars(Digits) \cup {"_"}

LowerOf ==
  [c \in UpperChars |->
     LET i == CHOOSE k \in 1..Len(Upper) : SubSeq(Upper, k, k) = c
     IN  SubSeq(Lower, i, i)]

\* str.lower() on one character
LowerChar(c) == IF c \in UpperChars THEN LowerOf[c] ELSE c

RECURSIVE lower(_)
lower(s) == IF s = "" THEN "" ELSE LowerChar(SubSeq(s, 1, 1)) \o lower(Tail(s))

IsSpace(c) == c = " "

RECURSIVE lstrip(_)
lstrip(s) == IF s # "" /\ IsSpace(SubSeq(s, 1, 1)) THEN lstrip(Tail(s)) ELSE s

RECURSIVE rstrip(_)
rstrip(s) ==
  IF s # "" /\ IsSpace(SubSeq(s, Len(s), Len(s)))
    THEN rstrip(SubSeq(s, 1, Len(s) - 1))
    ELSE s

\* str.strip()
strip(s) == rstrip(lstrip(s))

\* Python's  sub in s  (the empty string is in every string)
Contains(sub, s) ==
  \E i \in 0..(Len(s) - Len(sub)) : SubSeq(s, i + 1, i + Len(sub)) = sub

\* x or ""
OrEmpty(x) == IF x = Null THEN "" ELSE x

norm(s) == lower(strip(OrEmpty(s)))

\* re.sub(r"\s+", " ", s)
RECURSIVE CollapseSpaces(_)
CollapseSpaces(s) ==
  IF s = "" THEN ""
  ELSE IF IsSpace(SubSeq(s, 1, 1))
    THEN " " \o CollapseSpaces(lstrip(s))
    ELSE SubSeq(s, 1, 1) \o CollapseSpaces(Tail(s))

\* re.sub("<[^<]+?>", " ", s): at a "<", the lazy body ends at the first ">"
\* from the third character on, and must hold no "<".
RECURSIVE SubTags(_)
SubTags(s) ==
  IF s = "" THEN ""
  ELSE LET ends == {i \in 3..Len(s) : SubSeq(s, i, i) = ">"}
           e    == CHOOSE i \in ends : \A k \in ends : i <= k
       IN  IF /\ SubSeq(s, 1, 1) = "<"
              /\ ends # {}
              /\ ~HasChar(SubSeq(s, 2, e - 1), "<")
             THEN " " \o SubTags(SubSeq(s, e + 1, Len(s)))
             ELSE SubSeq(s, 1, 1) \o SubTags(Tail(s))

strip_html(s) == strip(CollapseSpaces(SubTags(OrEmpty(s))))

\* \w of the re module, on the characters the model uses
IsWordChar(c) == c \in WordChars

\* s.replace("&", " and ") followed by re.sub(r"[^\w\s]", " ", s)
RECURSIVE ReplacePunct(_)
ReplacePunct(s) ==
  IF s = "" THEN ""
  ELSE LET c == SubSeq(s, 1, 1)
       IN  (IF c = "&" THEN " and "
            ELSE IF IsWordChar(c) \/ IsSpace(c) THEN c ELSE " ")
           \o ReplacePunct(Tail(s))

\* the words of a string of word characters and spaces, in order
RECURSIVE Words(_)
Words(s) ==
  LET t == lstrip(s)
  IN  IF t = "" THEN <<>>
      ELSE LET stops == {i \in 1..Len(t) : IsSpace(SubSeq(t, i, i))}
               n     == IF stops = {} THEN Len(t)
                        ELSE (CHOOSE i \in stops : \A k \in stops : i <= k) - 1
           IN  <<SubSeq(t, 1, n)>> \o Words(SubSeq(t, n + 1, Len(t)))

LegalSuffixes ==
  {"inc", "ltd", "llc", "plc", "gmbh", "ag", "sa", "nv", "bv", "spa", "pte",
   "co", "company", "corp", "corporation", "holdings", "holding"}

RECURSIVE JoinWords(_)
JoinWords(ws) ==
  IF ws = <<>> THEN ""
  ELSE IF Len(ws) = 1 THEN ws[1]
  ELSE ws[1] \o " " \o JoinWords(Tail(ws))

RECURSIVE DropSuffixWords(_)
DropSuffixWords(ws) ==
  IF ws = <<>> THEN <<>>
  ELSE IF ws[1] \in LegalSuffixes THEN DropSuffixWords(Tail(ws))
  ELSE <<ws[1]>> \o DropSuffixWords(Tail(ws))

\* After the punctuation is replaced, the name holds word characters and
\* spaces only, so \b(inc|ltd|...)\b removes whole words; the alternatives
\* "s\.a" and "pte\." can no longer match.  The two-word alternative "s a"
\* is not modelled (no name of the model holds the words "s a").
normalize_company_name(s) ==
  JoinWords(DropSuffixWords(Words(ReplacePunct(lower(OrEmpty(s))))))

(***************************************************************************)
(* State                                                                   *)
(***************************************************************************)
VARIABLES
  store,     \* seen.json: [state: absent | ok | unreadable, urls: the list in the file]
  cfg,       \* config.yaml as load_config returns it
  ratio,     \* what fuzz.partial_ratio answers for a keyword that is no substring
  pc,        \* where main is
  runs,      \* runs of main started so far
  seen,      \* main's local  seen
  universe,  \* main's local  (global_set, brazil_set, extra_set)
  jobs,      \* main's local  jobs
  scored,    \* main's local  scored
  new_jobs,  \* main's local  new_jobs
  fetched,   \* history: the postings fetched in this run, before dedupe
  before,    \* history: the store as this run found it
  loaded,    \* history: what load_seen returned in this run
  sent,      \* history: the URLs delivered by the earlier successful runs
  store_ok,  \* history: every load_seen so far found the store absent or readable
  fn_pc,     \* the function applied in a single-function specification
  fn_job,    \* its posting argument
  fn_items,  \* its list argument
  fn_ret     \* its result

vars == <<store, cfg, ratio, pc, runs, seen, universe, jobs, scored, new_jobs,
          fetched, before, loaded, sent, store_ok, fn_pc, fn_job, fn_items, fn_ret>>

(***************************************************************************)
(* Filtering / scoring                                                     *)
(***************************************************************************)
\* cfg.get(key, default) for a number: <<>> is a missing key
GetInt(opt, default) == IF opt = <<>> THEN default ELSE opt[1]

\* any(norm(k) in text for k in keywords)
AnyKeywordIn(keywords, text) ==
  \E i \in 1..Len(keywords) : Contains(norm(keywords[i]), text)

is_brazil_job(location, c) ==
  AnyKeywordIn(c.brazil_location_keywords, norm(location))

is_remote_job(job, c) ==
  \/ lower(OrEmpty(job.source)) \in {"remotive", "remoteok", "weworkremotely"}
  \/ AnyKeywordIn(c.remote_keywords,
                  norm(job.location) \o " " \o norm(job.title) \o " "
                    \o norm(strip_html(job.description)))

should_exclude_title(title, c) ==
  AnyKeywordIn(c.exclude_title_keywords, norm(title))

must_be_finance_domain(title, c) ==
  LET t == norm(title)
  IN  \/ Contains("cfo", t)
      \/ Contains("chief financial officer", t)
      \/ AnyKeywordIn(c.must_contain_any_of, t)

\* rapidfuzz's fuzz.partial_ratio is a library outside the repository: a
\* needle that is a substring scores 100, any other pair scores `ratio`.
partial_ratio(kk, t) == IF Contains(kk, t) THEN 100 ELSE ratio

Max2(a, b) == IF a >= b THEN a ELSE b
Min2(a, b) == IF a <= b THEN a ELSE b

RECURSIVE BestRatio(_, _)
BestRatio(keywords, t) ==
  IF keywords = <<>> THEN 0
  ELSE LET kk   == norm(keywords[Len(keywords)])
           rest == BestRatio(SubSeq(keywords, 1, Len(keywords) - 1), t)
       IN  IF kk # "" THEN Max2(rest, partial_ratio(kk, t)) ELSE rest

title_match_score(title, c) ==
  LET t    == norm(title)
      ks   == c.target_title_keywords
      best == BestRatio(ks, t)
  IN  IF \E i \in 1..Len(ks) : norm(ks[i]) # "" /\ Contains(norm(ks[i]), t)
        THEN 78
      ELSE IF best >= 92 THEN 68
      ELSE IF best >= 88 THEN 58
      ELSE IF best >= 84 THEN 48
      ELSE 0

company_bonus(company, br, global_set, brazil_set, extra_set, c) ==
  LET cu == c.company_universe
      n  == normalize_company_name(company)
  IN  IF ~cu.enabled THEN 0
      ELSE (IF n \in extra_set THEN GetInt(cu.bonus_extra, 14) ELSE 0)
         + (IF n \in global_set THEN GetInt(cu.bonus_global, 10) ELSE 0)
         + (IF br /\ n \in brazil_set THEN GetInt(cu.bonus_brazil, 8) ELSE 0)

\* sum of 3 per nice keyword found in d
RECURSIVE KwBonus(_, _)
KwBonus(keywords, d) ==
  IF keywords = <<>> THEN 0
  ELSE (IF Contains(norm(keywords[1]), d) THEN 3 ELSE 0) + KwBonus(Tail(keywords), d)

\* score_job with a mistake: the result is not capped at 100
score_job_uncapped(job, c, global_set, brazil_set, extra_set) ==
  LET title   == OrEmpty(job.title)
      desc    == strip_html(OrEmpty(job.description))
      loc     == OrEmpty(job.location)
      company == OrEmpty(job.company)
      br      == is_brazil_job(loc, c)
      remote  == is_remote_job(job, c)
      base    == title_match_score(title, c)
      score   == base
                 + Min2(KwBonus(c.nice_keywords_desc, norm(desc)), 24)
                 + company_bonus(company, br, global_set, brazil_set, extra_set, c)
                 + (IF br THEN 6 ELSE 0)
                 + (IF remote THEN 6 ELSE 0)
  IN  IF should_exclude_title(title, c) THEN 0
      ELSE IF ~must_be_finance_domain(title, c) THEN 0
      ELSE IF c.require_remote_outside_brazil /\ ~br /\ ~remote THEN 0
      ELSE IF base = 0 THEN 0
      ELSE Max2(0, score)

score_job(job, c, global_set, brazil_set, extra_set) ==
  LET title   == OrEmpty(job.title)
      desc    == strip_html(OrEmpty(job.description))
      loc     == OrEmpty(job.location)
      company == OrEmpty(job.company)
      br      == is_brazil_job(loc, c)
      remote  == is_remote_job(job, c)
      base    == title_match_score(title, c)
      score   == base
                 + Min2(KwBonus(c.nice_keywords_desc, norm(desc)), 24)
                 + company_bonus(company, br, global_set, brazil_set, extra_set, c)
                 + (IF br THEN 6 ELSE 0)
                 + (IF remote THEN 6 ELSE 0)
  IN  IF should_exclude_title(title, c) THEN 0
      ELSE IF ~must_be_finance_domain(title, c) THEN 0
      ELSE IF c.require_remote_outside_brazil /\ ~br /\ ~remote THEN 0
      ELSE IF base = 0 THEN 0
      ELSE Max2(0, Min2(score, 100))

\* dedupe: the first posting of each stripped apply_url, none with an empty one
RECURSIVE DedupeFrom(_, _)
DedupeFrom(items, urls) ==
  IF items = <<>> THEN <<>>
  ELSE LET it  == items[1]
           url == strip(OrEmpty(it.apply_url))
       IN  IF url = "" \/ url \in urls
             THEN DedupeFrom(Tail(items), urls)
             ELSE <<it>> \o DedupeFrom(Tail(items), urls \cup {url})

\* dedupe with a mistake: the URLs are compared as written, not stripped
RECURSIVE DedupeFromUnstripped(_, _)
DedupeFromUnstripped(items, urls) ==
  IF items = <<>> THEN <<>>
  ELSE LET it  == items[1]
           url == OrEmpty(it.apply_url)
       IN  IF url = "" \/ url \in urls
             THEN DedupeFromUnstripped(Tail(items), urls)
             ELSE <<it>> \o DedupeFromUnstripped(Tail(items), urls \cup {url})

dedupe_unstripped(items) == DedupeFromUnstripped(items, {})

dedupe(items) == DedupeFrom(items, {})

(***************************************************************************)
(* HTTP and JSON                                                           *)
(*                                                                         *)
(* A response is [exc, status, body]: exc says requests.get raised a       *)
(* RequestException; body is [text, data] with text one of "" (empty),     *)
(* "garbage" (json.loads raises) and "json" (json.loads returns data).     *)
(* A JSON value is [t, items]: t is "null", "dict" (items: the list under  *)
(* the key the fetcher reads), "emptydict" ({}) or "list".  An element of  *)
(* items is a record whose t is "dict", or "str" for an element that is no *)
(* object.                                                                 *)
(***************************************************************************)
JNone == [t |-> "null", items |-> <<>>]
NoText == [text |-> "", data |-> JNone]

http_get_text(r) ==
  IF r.exc THEN NoText
  ELSE IF r.status >= 400 THEN NoText
  ELSE r.body

get_json(r) ==
  LET txt == http_get_text(r)
  IN  IF txt.text = "" THEN JNone
      ELSE IF txt.text = "garbage" THEN JNone
      ELSE txt.data

\* Python's truth value of a JSON value
Truthy(d) == d.t = "dict" \/ (d.t = "list" /\ d.items # <<>>)

\* isinstance(x, list) / isinstance(x, dict)
IsList(d) == d.t = "list"
IsDict(d) == d.t \in {"dict", "emptydict"}

Posting(title, company, location, apply_url, description, source) ==
  [title |-> title, company |-> company, location |-> location,
   apply_url |-> apply_url, description |-> description, source |-> source]

Returned(out) == [raised |-> FALSE, out |-> out]
Raised == [raised |-> TRUE, out |-> <<>>]

RECURSIVE Flatten(_)
Flatten(lists) == IF lists = <<>> THEN <<>> ELSE lists[1] \o Flatten(Tail(lists))

\* x.get(...) raises AttributeError when x is no dict
GetRaises(d) == ~IsDict(d)

\* the loop body of a fetcher over one response, for a source whose payload
\* is an object holding the list: data.get(key, []) and j.get(...) per item
ObjectPayloadRaises(data) ==
  Truthy(data) /\ (GetRaises(data) \/ \E i \in 1..Len(data.items) : GetRaises(data.items[i]))

FromAdzuna(j, country) ==
  Posting(OrEmpty(j.title), OrEmpty(j.company), OrEmpty(j.location),
          OrEmpty(j.url), OrEmpty(j.description), "adzuna:" \o country)

fetch_adzuna(c, creds, resps) ==
  LET queries == c.sources.adzuna.queries
      country(q) == norm(queries[q].country)
      one(q) == LET data == get_json(resps[q])
                IN  IF ~Truthy(data) THEN <<>>
                    ELSE [i \in 1..Len(data.items) |-> FromAdzuna(data.items[i], country(q))]
  IN  IF queries = <<>> THEN Returned(<<>>)
      ELSE IF ~creds THEN Returned(<<>>)
      ELSE IF \E q \in 1..Len(queries) : ObjectPayloadRaises(get_json(resps[q])) THEN Raised
      ELSE Returned(Flatten([q \in 1..Len(queries) |-> one(q)]))

FromRemotive(j) ==
  Posting(OrEmpty(j.title), OrEmpty(j.company), OrEmpty(j.location),
          OrEmpty(j.url), OrEmpty(j.description), "remotive")

fetch_remotive(urls, resps) ==
  LET one(u) == LET data == get_json(resps[u])
                IN  IF ~Truthy(data) THEN <<>>
                    ELSE [i \in 1..Len(data.items) |-> FromRemotive(data.items[i])]
  IN  IF \E u \in 1..Len(urls) : ObjectPayloadRaises(get_json(resps[u])) THEN Raised
      ELSE Returned(Flatten([u \in 1..Len(urls) |-> one(u)]))

FromRemoteok(j) ==
  Posting(OrEmpty(j.title), OrEmpty(j.company), OrEmpty(j.location),
          OrEmpty(j.url), OrEmpty(j.description), "remoteok")

\* [x for x in data if isinstance(x, dict) and x.get("id")]
RECURSIVE RemoteokJobs(_)
RemoteokJobs(items) ==
  IF items = <<>> THEN <<>>
  ELSE (IF IsDict(items[1]) /\ items[1].id # Null THEN <<FromRemoteok(items[1])>> ELSE <<>>)
       \o RemoteokJobs(Tail(items))

fetch_remoteok(urls, resps) ==
  LET one(u) == LET data == get_json(resps[u])
                IN  IF ~Truthy(data) \/ ~IsList(data) THEN <<>>
                    ELSE RemoteokJobs(data.items)
  IN  Returned(Flatten([u \in 1..Len(urls) |-> one(u)]))

FromWwr(e) ==
  Posting(OrEmpty(e.title), "", "", OrEmpty(e.url), OrEmpty(e.description),
          "weworkremotely")

\* feedparser.parse returns a feed whose entries are dict-like whatever it
\* was given; feeds[u] is that list of entries.
fetch_wwr_rss(urls, feeds) ==
  Returned(Flatten([u \in 1..Len(urls) |->
                      [i \in 1..Len(feeds[u]) |-> FromWwr(feeds[u][i])]]))

FromGreenhouse(j, b) ==
  Posting(OrEmpty(j.title), b, OrEmpty(j.location), OrEmpty(j.url),
          OrEmpty(j.description), "greenhouse:" \o b)

\* resps[k] is the response for boards[k]; an empty board name sends nothing
fetch_greenhouse(boards, resps) ==
  LET b(k) == strip(OrEmpty(boards[k]))
      one(k) == LET data == get_json(resps[k])
                IN  IF b(k) = "" \/ ~Truthy(data) THEN <<>>
                    ELSE [i \in 1..Len(data.items) |-> FromGreenhouse(data.items[i], b(k))]
  IN  IF \E k \in 1..Len(boards) : b(k) # "" /\ ObjectPayloadRaises(get_json(resps[k]))
        THEN Raised
        ELSE Returned(Flatten([k \in 1..Len(boards) |-> one(k)]))

\* j.get("hostedUrl", "") or j.get("applyUrl", "") or ""
FromLever(j, c) ==
  Posting(OrEmpty(j.title), c, OrEmpty(j.location),
          IF OrEmpty(j.url) # "" THEN j.url ELSE OrEmpty(j.alt_url),
          OrEmpty(j.description), "lever:" \o c)

fetch_lever(companies, resps) ==
  LET c(k) == strip(OrEmpty(companies[k]))
      skipped(k) == LET data == get_json(resps[k])
                    IN  c(k) = "" \/ ~Truthy(data) \/ ~IsList(data)
      one(k) == IF skipped(k) THEN <<>>
                ELSE LET data == get_json(resps[k])
                     IN  [i \in 1..Len(data.items) |-> FromLever(data.items[i], c(k))]
  IN  IF \E k \in 1..Len(companies) :
            ~skipped(k) /\ \E i \in 1..Len(get_json(resps[k]).items) :
                              GetRaises(get_json(resps[k]).items[i])
        THEN Raised
        ELSE Returned(Flatten([k \in 1..Len(companies) |-> one(k)]))

(***************************************************************************)
(* The seen store                                                          *)
(***************************************************************************)
Range(q) == {q[i] : i \in 1..Len(q)}

\* the characters of the model's identifiers, in code point order
CodeOrder == " &./0123456789:ABCDEFGHIJKLMNOPQRSTUVWXYZ_abcdefghijklmnopqrstuvwxyz"

CharCode(c) == CHOOSE k \in 1..Len(CodeOrder) : SubSeq(CodeOrder, k, k) = c

\* Python's  a < b  on str
RECURSIVE StrLess(_, _)
StrLess(a, b) ==
  IF b = "" THEN FALSE
  ELSE IF a = "" THEN TRUE
  ELSE IF SubSeq(a, 1, 1) = SubSeq(b, 1, 1) THEN StrLess(Tail(a), Tail(b))
  ELSE CharCode(SubSeq(a, 1, 1)) < CharCode(SubSeq(b, 1, 1))

\* sorted(list(s))
RECURSIVE SortedList(_)
SortedList(S) ==
  IF S = {} THEN <<>>
  ELSE LET m == CHOOSE x \in S : \A y \in S \ {x} : StrLess(x, y)
       IN  <<m>> \o SortedList(S \ {m})

\* load_seen: the set of the list in the file; empty when the file is absent
\* or when reading or parsing it raises
load_seen(st) ==
  IF st.state = "absent" THEN {}
  ELSE IF st.state = "unreadable" THEN {}
  ELSE Range(st.urls)

\* save_seen: the file rewritten with the sorted list
save_seen(s) == [state |-> "ok", urls |-> SortedList(s)]

(***************************************************************************)
(* Company universe                                                        *)
(***************************************************************************)
Take(q, n) == SubSeq(q, 1, Min2(n, Len(q)))

NormalizedNames(names) ==
  {normalize_company_name(names[i]) : i \in {k \in 1..Len(names) : names[k] # ""}}

\* names is the Name column of the CSV the site answers with, empty when the
\* request or the parse of every template of every page fails
fetch_companies_from_templates(templates, names) ==
  IF templates = <<>> THEN <<>> ELSE names

load_company_universe(c, global_names, brazil_names) ==
  LET cu  == c.company_universe
      cmc == cu.companiesmarketcap
  IN  IF ~cu.enabled
        THEN [global_set |-> {}, brazil_set |-> {}, extra_set |-> {}]
        ELSE [global_set |->
                NormalizedNames(Take(fetch_companies_from_templates(
                                       cmc.global_url_templates, global_names),
                                     GetInt(cu.global_top_n, 1000))),
              brazil_set |->
                NormalizedNames(Take(fetch_companies_from_templates(
                                       cmc.brazil_url_templates, brazil_names),
                                     GetInt(cu.brazil_top_n, 100))),
              extra_set  |-> NormalizedNames(cu.extra_companies)]

(***************************************************************************)
(* Ranking and selection (main, lines 503-527)                             *)
(***************************************************************************)
WithScore(j, s) ==
  [title |-> j.title, company |-> j.company, location |-> j.location,
   apply_url |-> j.apply_url, description |-> j.description, source |-> j.source,
   score |-> s]

\* the loop that keeps the postings with a positive score
RECURSIVE ScoreAll(_, _, _)
ScoreAll(items, c, u) ==
  IF items = <<>> THEN <<>>
  ELSE LET sc == score_job(items[1], c, u.global_set, u.brazil_set, u.extra_set)
       IN  (IF sc <= 0 THEN <<>> ELSE <<WithScore(items[1], sc)>>)
           \o ScoreAll(Tail(items), c, u)

\* InsertByScore with a mistake: x goes before the elements of its own score
RECURSIVE InsertBeforeTies(_, _)
InsertBeforeTies(x, q) ==
  IF q = <<>> THEN <<x>>
  ELSE IF q[1].score > x.score THEN <<q[1]>> \o InsertBeforeTies(x, Tail(q))
  ELSE <<x>> \o q

\* x inserted after the elements whose score is not below its own
RECURSIVE InsertByScore(_, _)
InsertByScore(x, q) ==
  IF q = <<>> THEN <<x>>
  ELSE IF q[1].score >= x.score THEN <<q[1]>> \o InsertByScore(x, Tail(q))
  ELSE <<x>> \o q

\* list.sort(key=score, reverse=True): stable, descending
RECURSIVE SortByScore(_)
SortByScore(q) ==
  IF q = <<>> THEN <<>>
  ELSE InsertByScore(q[Len(q)], SortByScore(SubSeq(q, 1, Len(q) - 1)))

\* the selection loop: the test of max_items follows the append
RECURSIVE SelectFrom(_, _, _, _, _)
SelectFrom(items, acc, s, min_score, max_items) ==
  IF items = <<>> THEN acc
  ELSE LET j   == items[1]
           url == strip(OrEmpty(j.apply_url))
       IN  IF url = "" \/ url \in s
             THEN SelectFrom(Tail(items), acc, s, min_score, max_items)
           ELSE IF j.score < min_score
             THEN SelectFrom(Tail(items), acc, s, min_score, max_items)
           ELSE IF Len(acc) + 1 >= max_items
             THEN Append(acc, j)
           ELSE SelectFrom(Tail(items), Append(acc, j), s, min_score, max_items)

\* SelectNew with a mistake: the seen set is not consulted
SelectNewIgnoringSeen(items, s, c) ==
  SelectFrom(items, <<>>, {},
             GetInt(c.min_score_to_send, 74), GetInt(c.max_items_per_day, 20))

SelectNew(items, s, c) ==
  SelectFrom(items, <<>>, s,
             GetInt(c.min_score_to_send, 74), GetInt(c.max_items_per_day, 20))

\* the URLs main adds to seen after the delivery
Urls(items) ==
  {strip(OrEmpty(items[i].apply_url)) : i \in 1..Len(items)} \ {""}

(***************************************************************************)
(* Bounds and inputs                                                       *)
(***************************************************************************)
MaxRuns == 2
MaxItems == 2

Config(must, max_items, bonus, profile) ==
  [exclude_title_keywords        |-> <<"Intern">>,
   must_contain_any_of           |-> must,
   target_title_keywords         |-> <<"finance director", "CFO", "", "head of finance">>,
   nice_keywords_desc            |-> <<"FP&A", "budget">>,
   remote_keywords               |-> <<"remote">>,
   brazil_location_keywords      |-> <<"brazil", "brasil">>,
   require_remote_outside_brazil |-> TRUE,
   min_score_to_send             |-> profile.min_score_to_send,
   max_items_per_day             |-> max_items,
   company_universe |->
     [enabled |-> TRUE, global_top_n |-> <<>>, brazil_top_n |-> <<>>,
      bonus_extra |-> <<>>, bonus_global |-> bonus, bonus_brazil |-> <<>>,
      companiesmarketcap |-> profile.companiesmarketcap,
      extra_companies |-> <<"Initech LLC">>],
   sources |-> profile.sources,
   company_watchlist |-> profile.company_watchlist]

\* a config.yaml of the job boards, with the company lists and no
\* min_score_to_send, and one of the feed and the watchlists
BoardProfile ==
  [min_score_to_send |-> <<>>,
   companiesmarketcap |->
     [global_url_templates |-> <<"https://companiesmarketcap.com/?download=csv&page={page}">>,
      brazil_url_templates |-> <<"https://companiesmarketcap.com/brazil/?download=csv">>],
   sources |->
     [adzuna |-> [queries |-> <<[country |-> " BR", what |-> "cfo"]>>],
      remotive |-> <<"https://remotive.com/api/remote-jobs">>,
      remoteok |-> <<"https://remoteok.com/api">>,
      weworkremotely_rss |-> <<>>],
   company_watchlist |-> [greenhouse_boards |-> <<" ">>, lever_companies |-> <<>>]]

WatchProfile ==
  [min_score_to_send |-> <<90>>,
   companiesmarketcap |-> [global_url_templates |-> <<>>, brazil_url_templates |-> <<>>],
   sources |->
     [adzuna |-> [queries |-> <<>>],
      remotive |-> <<>>,
      remoteok |-> <<>>,
      weworkremotely_rss |-> <<"https://weworkremotely.com/remote-jobs.rss">>],
   company_watchlist |->
     [greenhouse_boards |-> <<" acme ">>, lever_companies |-> <<"globex">>]]

\* the configurations of the runs
Configs ==
  {Config(<<"Finance ">>, <<n>>, <<>>, profile) :
     n \in 0..MaxItems, profile \in {BoardProfile, WatchProfile}}

Item(title, company, location, url, alt_url, description, id) ==
  [t |-> "dict", title |-> title, company |-> company, location |-> location,
   url |-> url, alt_url |-> alt_url, description |-> description, id |-> id]

\* an element of a JSON list that is no object
NonObject ==
  [t |-> "str", title |-> Null, company |-> Null, location |-> Null,
   url |-> Null, alt_url |-> Null, description |-> Null, id |-> Null]

JDict(items) == [t |-> "dict", items |-> items]
JList(items) == [t |-> "list", items |-> items]
JEmptyDict == [t |-> "emptydict", items |-> <<>>]

Ok(data) == [exc |-> FALSE, status |-> 200, body |-> [text |-> "json", data |-> data]]

\* the ways a fetch fails: a network error, a bad status, an empty body,
\* a body that is no JSON, and JSON of a shape the fetcher does not expect
NetworkError == [exc |-> TRUE, status |-> 0, body |-> NoText]
BadStatus == [exc |-> FALSE, status |-> 503, body |-> [text |-> "garbage", data |-> JNone]]
NotJson == [exc |-> FALSE, status |-> 200, body |-> [text |-> "garbage", data |-> JNone]]
EmptyBody == [exc |-> FALSE, status |-> 200, body |-> NoText]

Failures(good) ==
  {NetworkError, BadStatus, NotJson, EmptyBody, Ok(JEmptyDict), Ok(JList(<<>>)),
   IF IsList(good) THEN Ok(JDict(good.items)) ELSE Ok(JList(good.items)),
   Ok([t |-> good.t, items |-> <<NonObject>> \o good.items])}

AdzunaData ==
  JDict(<<Item("Finance Director", "Acme Corp.", "Sao Paulo, Brazil", "u2", Null,
               "FP&A <b>budget</b>", "id1")>>)

RemotiveData ==
  JDict(<<Item("Finance Director", "Globex", "Worldwide", "u1", Null, Null, "id2"),
          Item("Finance Intern", "Globex", "Worldwide", "u3", Null, "budget", "id3"),
          Item("Group CFO", "Hooli", "Worldwide", "u4", Null, "", "id8")>>)

RemoteokData ==
  JList(<<Item(Null, Null, Null, Null, Null, "legal notice", Null),
          Item("CFO", "Initech", "", " u3 ", Null, "fp&a", "id4")>>)

WwrEntries ==
  <<Item("Interim CFO", Null, Null, "u3", Null, "<p>FP&amp;A and budget</p>", Null),
    Item("Finance Intern", Null, Null, " u2", Null, "", Null)>>

GreenhouseData ==
  JDict(<<Item("Head of Finance", Null, "Remote - LATAM", "u4", Null, "budget, FP&A", "id5")>>)

LeverData ==
  JList(<<Item("Finance Directr", Null, "Chicago, IL", "", "u1", "Remote role", "id6"),
          Item("Finance Director", Null, "Chicago, IL", Null, Null, "Remote role", "id7"),
          Item("CFO", Null, "Remote", "u2 ", "u5", "<b>Budget</b> owner, FP&A", "id9")>>)

\* the Name column of the CompaniesMarketCap pages
CmcGlobal == <<"Acme Corp.", "", "Globex & Co">>
CmcBrazil == <<"ACME CORPORATION">>

NoJob == Posting("", "", "", "", "", "")

(***************************************************************************)
(* main                                                                    *)
(***************************************************************************)
FnIdle == /\ fn_pc = "none" /\ fn_job = NoJob /\ fn_items = <<>> /\ fn_ret = <<>>

fnvars == <<fn_pc, fn_job, fn_items, fn_ret>>

NoUniverse == [global_set |-> {}, brazil_set |-> {}, extra_set |-> {}]
Absent == [state |-> "absent", urls |-> <<>>]

\* no run in progress: main's locals do not exist
NoLocals ==
  /\ seen = {}
  /\ universe = NoUniverse
  /\ jobs = <<>>
  /\ scored = <<>>
  /\ new_jobs = <<>>
  /\ fetched = <<>>
  /\ loaded = {}

Init ==
  /\ store \in {Absent, [state |-> "ok", urls |-> <<"u1", "u9">>]}
  /\ before = store
  /\ cfg \in Configs
  /\ ratio = 92
  /\ pc = "idle"
  /\ runs = 0
  /\ NoLocals
  /\ sent = {}
  /\ store_ok = TRUE
  /\ FnIdle

Ended == pc \in {"idle", "done", "aborted", "crashed"}

\* lines 483-491: load_config, load_seen, load_company_universe
Start ==
  /\ Ended
  /\ runs < MaxRuns
  /\ runs' = runs + 1
  /\ seen' = load_seen(store)
  /\ loaded' = load_seen(store)
  /\ before' = store
  /\ store_ok' = (store_ok /\ store.state # "unreadable")
  /\ \E up \in BOOLEAN :
       universe' = load_company_universe(cfg, IF up THEN CmcGlobal ELSE <<>>,
                                              IF up THEN CmcBrazil ELSE <<>>)
  /\ jobs' = <<>>
  /\ scored' = <<>>
  /\ new_jobs' = <<>>
  /\ fetched' = <<>>
  /\ pc' = "adzuna"
  /\ UNCHANGED <<store, cfg, ratio, sent, fnvars>>

\* jobs.extend(fetch(...)): an exception of the fetcher leaves main
Extend(r, next) ==
  /\ IF r.raised
       THEN /\ pc' = "crashed"
            /\ UNCHANGED <<jobs, fetched>>
       ELSE /\ pc' = next
            /\ jobs' = jobs \o r.out
            /\ fetched' = fetched \o r.out
  /\ UNCHANGED <<store, cfg, ratio, runs, seen, universe, scored, new_jobs,
                 before, loaded, sent, store_ok, fnvars>>

Responses(n, good) == [1..n -> {Ok(good)} \cup Failures(good)]

FetchAdzuna ==
  /\ pc = "adzuna"
  /\ \E creds \in BOOLEAN :
       \E resps \in Responses(Len(cfg.sources.adzuna.queries), AdzunaData) :
         Extend(fetch_adzuna(cfg, creds, resps), "remotive")

FetchRemotive ==
  /\ pc = "remotive"
  /\ \E resps \in Responses(Len(cfg.sources.remotive), RemotiveData) :
       Extend(fetch_remotive(cfg.sources.remotive, resps), "remoteok")

FetchRemoteok ==
  /\ pc = "remoteok"
  /\ \E resps \in Responses(Len(cfg.sources.remoteok), RemoteokData) :
       Extend(fetch_remoteok(cfg.sources.remoteok, resps), "wwr")

FetchWwr ==
  /\ pc = "wwr"
  /\ \E feeds \in [1..Len(cfg.sources.weworkremotely_rss) -> {<<>>, WwrEntries}] :
       Extend(fetch_wwr_rss(cfg.sources.weworkremotely_rss, feeds), "greenhouse")

FetchGreenhouse ==
  /\ pc = "greenhouse"
  /\ \E resps \in Responses(Len(cfg.company_watchlist.greenhouse_boards), GreenhouseData) :
       Extend(fetch_greenhouse(cfg.company_watchlist.greenhouse_boards, resps), "lever")

FetchLever ==
  /\ pc = "lever"
  /\ \E resps \in Responses(Len(cfg.company_watchlist.lever_companies), LeverData) :
       Extend(fetch_lever(cfg.company_watchlist.lever_companies, resps), "rank")

\* lines 503-529: dedupe, score, sort, select
Rank ==
  /\ pc = "rank"
  /\ LET deduped == dedupe(jobs)
         ranked  == SortByScore(ScoreAll(deduped, cfg, universe))
     IN  /\ jobs' = deduped
         /\ scored' = ranked
         /\ new_jobs' = SelectNew(ranked, seen, cfg)
  /\ pc' = "send"
  /\ UNCHANGED <<store, cfg, ratio, runs, seen, universe, fetched, before, loaded,
                 sent, store_ok, fnvars>>

\* line 530, with a mistake: the store is written whatever the delivery does
SendTelegramAfterSaving ==
  /\ pc = "send"
  /\ store' = save_seen(seen \cup Urls(new_jobs))
  /\ \E token \in BOOLEAN, status \in {200, 400} :
       pc' = IF token /\ status < 400 THEN "save" ELSE "aborted"
  /\ UNCHANGED <<cfg, ratio, runs, seen, universe, jobs, scored, new_jobs,
                 fetched, before, loaded, sent, store_ok, fnvars>>

\* line 530: send_telegram returns, or raises RuntimeError (no token or chat
\* id, or a status >= 400) and main ends there
SendTelegram ==
  /\ pc = "send"
  /\ \E token \in BOOLEAN, status \in {200, 400} :
       pc' = IF token /\ status < 400 THEN "save" ELSE "aborted"
  /\ UNCHANGED <<store, cfg, ratio, runs, seen, universe, jobs, scored, new_jobs,
                 fetched, before, loaded, sent, store_ok, fnvars>>

\* lines 532-536, with a mistake: every fetched posting is marked seen
SaveSeenAllFetched ==
  /\ pc = "save"
  /\ seen' = seen \cup Urls(jobs)
  /\ store' = save_seen(seen \cup Urls(jobs))
  /\ sent' = sent \cup Urls(new_jobs)
  /\ pc' = "done"
  /\ UNCHANGED <<cfg, ratio, runs, universe, jobs, scored, new_jobs, fetched,
                 before, loaded, store_ok, fnvars>>

\* lines 532-536: the delivered URLs join seen, save_seen rewrites the file
SaveSeen ==
  /\ pc = "save"
  /\ seen' = seen \cup Urls(new_jobs)
  /\ store' = save_seen(seen \cup Urls(new_jobs))
  /\ sent' = sent \cup Urls(new_jobs)
  /\ pc' = "done"
  /\ UNCHANGED <<cfg, ratio, runs, universe, jobs, scored, new_jobs, fetched,
                 before, loaded, store_ok, fnvars>>

\* between two runs the file becomes unreadable (a read error, a damaged
\* file) with its bytes still there: the case of load_seen's except branch
StoreUnreadable ==
  /\ Ended
  /\ runs < MaxRuns
  /\ store.state = "ok"
  /\ store' = [store EXCEPT !.state = "unreadable"]
  /\ before' = [store EXCEPT !.state = "unreadable"]
  /\ pc' = "idle"
  /\ seen' = {}
  /\ universe' = NoUniverse
  /\ jobs' = <<>>
  /\ scored' = <<>>
  /\ new_jobs' = <<>>
  /\ fetched' = <<>>
  /\ loaded' = {}
  /\ UNCHANGED <<cfg, ratio, runs, sent, store_ok, fnvars>>

Next ==
  \/ Start
  \/ FetchAdzuna
  \/ FetchRemotive
  \/ FetchRemoteok
  \/ FetchWwr
  \/ FetchGreenhouse
  \/ FetchLever
  \/ Rank
  \/ SendTelegram
  \/ SaveSeen
  \/ StoreUnreadable

Spec == Init /\ [][Next]_vars

(***************************************************************************)
(* Properties of a run                                                     *)
(***************************************************************************)
HeldUrls(st) == Range(st.urls)

Selected == pc \in {"send", "save", "done", "aborted"}

\* the identifying URL of a posting
UrlOf(j) == strip(OrEmpty(j.apply_url))

MinScore == GetInt(cfg.min_score_to_send, 74)
MaxCount == GetInt(cfg.max_items_per_day, 20)

\* C1: when send_telegram fails the run aborts and seen.json is exactly what
\* the run found: none of the postings selected in the run is marked seen.
FailedDeliveryLeavesStore == pc = "aborted" => store = before

\* C1: a run whose delivery failed after it had selected postings
FailedDeliveryWitness ==
  /\ pc = "aborted"
  /\ new_jobs # <<>>
  /\ Urls(new_jobs) \cap HeldUrls(store) = {}

\* C2: while every load of the store succeeds, a posting whose trimmed URL is
\* in the loaded seen set is not selected, every URL delivered by an earlier
\* successful run is in the loaded seen set, and so no URL is delivered twice.
NoUrlDeliveredTwice ==
  (store_ok /\ pc \notin {"idle", "done"}) =>
     /\ sent \subseteq loaded
     /\ Urls(new_jobs) \cap loaded = {}
     /\ Urls(new_jobs) \cap sent = {}

\* C2: a second run that fetched a posting delivered by the first one, and
\* delivers others
SecondRunWitness ==
  /\ store_ok
  /\ runs = 2
  /\ pc = "save"
  /\ new_jobs # <<>>
  /\ \E i \in 1..Len(fetched) : UrlOf(fetched[i]) \in sent

\* C3: whatever the outcome of a run, the URLs held in seen.json after it are
\* a superset of those held before it.
StoreOnlyGrows ==
  pc \in {"done", "aborted", "crashed"} => HeldUrls(before) \subseteq HeldUrls(store)

\* C5: no failure of a source fetch ends the run: main goes on to dedupe,
\* scoring, delivery and save_seen.
FetchFailureNeverAborts == pc # "crashed"

\* the postings of q that satisfy the selection loop's two tests
RECURSIVE Eligible(_, _, _)
Eligible(q, s, min_score) ==
  IF q = <<>> THEN <<>>
  ELSE (IF UrlOf(q[1]) # "" /\ UrlOf(q[1]) \notin s /\ q[1].score >= min_score
          THEN <<q[1]>> ELSE <<>>)
       \o Eligible(Tail(q), s, min_score)

\* C6: the delivered list is the ranked list restricted to the postings at or
\* above min_score_to_send with an unseen URL, cut to the first
\* max_items_per_day elements; it is never longer than max_items_per_day.
DeliveredIsTruncatedFilter ==
  Selected =>
    /\ new_jobs = Take(Eligible(scored, loaded, MinScore), MaxCount)
    /\ Len(new_jobs) <= MaxCount

IsDescending(q) == \A i, k \in 1..Len(q) : i < k => q[i].score >= q[k].score

\* the position of the first posting of list q with the URL of j
FirstIndex(q, j) == CHOOSE i \in 1..Len(q) : UrlOf(q[i]) = UrlOf(j) /\ \A k \in 1..(i - 1) : UrlOf(q[k]) # UrlOf(j)

TiesKeepInputOrder(q, input) ==
  \A i, k \in 1..Len(q) :
    (i < k /\ q[i].score = q[k].score) => FirstIndex(input, q[i]) < FirstIndex(input, q[k])

ScoreOf(j) == score_job(j, cfg, universe.global_set, universe.brazil_set, universe.extra_set)

\* the postings of list q that are eligible and whose URL is not delivered
Undelivered(q) ==
  {i \in 1..Len(q) :
     /\ UrlOf(q[i]) # ""
     /\ UrlOf(q[i]) \notin loaded
     /\ UrlOf(q[i]) \notin Urls(new_jobs)
     /\ ScoreOf(q[i]) >= MinScore}

\* C9 as stated: the delivered list is in descending order of score with ties
\* in the order of the deduplicated input, and no eligible posting fetched in
\* the run and left undelivered has a higher score than a delivered one.
DeliveredOutrankFetched ==
  pc = "send" =>
    /\ IsDescending(new_jobs)
    /\ TiesKeepInputOrder(new_jobs, jobs)
    /\ \A d \in 1..Len(new_jobs) : \A i \in Undelivered(fetched) :
         new_jobs[d].score >= ScoreOf(fetched[i])

\* C9 amended: the same, for the eligible postings of the deduplicated list
\* (the first fetched posting of each URL).
DeliveredOutrankDeduped ==
  pc = "send" =>
    /\ IsDescending(new_jobs)
    /\ TiesKeepInputOrder(new_jobs, jobs)
    /\ \A d \in 1..Len(new_jobs) : \A i \in Undelivered(jobs) :
         new_jobs[d].score >= ScoreOf(jobs[i])

\* C9: two delivered postings of different scores, and an eligible posting
\* cut off by the maximum count that ties with the last delivered one
RankingWitness ==
  /\ pc = "send"
  /\ Len(new_jobs) = 2
  /\ new_jobs[1].score > new_jobs[2].score
  /\ \E i \in Undelivered(jobs) : ScoreOf(jobs[i]) = new_jobs[2].score

\* C10: after a successful run seen.json holds the loaded seen set and the
\* URLs of the delivered postings, and of no other fetched posting; until the
\* delivery has succeeded neither seen nor seen.json changes.
SeenIsLoadedPlusDelivered ==
  /\ pc = "done" =>
       /\ HeldUrls(store) = loaded \cup Urls(new_jobs)
       /\ \A i \in 1..Len(jobs) :
            UrlOf(jobs[i]) \notin Urls(new_jobs) \cup loaded
              => UrlOf(jobs[i]) \notin HeldUrls(store)
  /\ pc \in {"adzuna", "remotive", "remoteok", "wwr", "greenhouse", "lever",
             "rank", "send", "save"} =>
       /\ seen = loaded
       /\ store = before

\* C10: a successful run that delivered a posting and left three others
\* undelivered: one of score 0, one below the minimum, one cut off
SuccessfulRunWitness ==
  /\ pc = "done"
  /\ new_jobs # <<>>
  /\ \E i \in 1..Len(jobs) :
       ScoreOf(jobs[i]) = 0 /\ UrlOf(jobs[i]) \notin HeldUrls(store)
  /\ \E i \in 1..Len(scored) :
       scored[i].score < MinScore /\ UrlOf(scored[i]) \notin HeldUrls(store)
  /\ \E i \in Undelivered(jobs) : UrlOf(jobs[i]) \notin HeldUrls(store)

(***************************************************************************)
(* The scoring functions on their own: Init draws a posting, a             *)
(* configuration, a company universe and the library's ratio.              *)
(***************************************************************************)
MainIdle ==
  /\ store = Absent
  /\ before = Absent
  /\ pc = "idle"
  /\ runs = 0
  /\ seen = {}
  /\ jobs = <<>>
  /\ scored = <<>>
  /\ new_jobs = <<>>
  /\ fetched = <<>>
  /\ loaded = {}
  /\ sent = {}
  /\ store_ok = TRUE

mainvars == <<store, before, pc, runs, seen, jobs, scored, new_jobs, fetched,
              loaded, sent, store_ok>>

ScoreTitles ==
  {"CFO", " Chief Financial Officer (Intern)", "Finance Director", "Finance Intern",
   "Head of Treasury", "Finance Directr"}

ScoreJobs ==
  {Posting(title, company, location, "u1", d.description, d.source) :
     title \in ScoreTitles,
     company \in {"Acme Corp.", "Umbrella"},
     location \in {"Sao Paulo, Brazil", "Chicago, IL"},
     d \in {[description |-> "", source |-> "lever:acme"],
            [description |-> "FP&A <b>budget</b>", source |-> "remotive"]}}

ScoreConfigs ==
  {[Config(must, <<>>, bonus, BoardProfile)
      EXCEPT !.exclude_title_keywords = exclude,
             !.require_remote_outside_brazil = require] :
     must \in {<<>>, <<"finance">>, <<" Treasury">>},
     bonus \in {<<>>, <<-500>>, <<500>>},
     exclude \in {<<>>, <<"intern">>},
     require \in BOOLEAN}

ScoreUniverses ==
  {NoUniverse, [global_set |-> {"acme"}, brazil_set |-> {"acme"}, extra_set |-> {"umbrella"}]}

InitScore ==
  /\ MainIdle
  /\ cfg \in ScoreConfigs
  /\ universe \in ScoreUniverses
  /\ ratio \in {0, 88, 92}
  /\ fn_pc = "ready"
  /\ fn_job \in ScoreJobs
  /\ fn_items = <<>>
  /\ fn_ret = <<>>

CallMustBeFinanceDomain ==
  /\ fn_pc = "ready"
  /\ fn_pc' = "must_be_finance_domain"
  /\ fn_ret' = <<must_be_finance_domain(fn_job.title, cfg)>>
  /\ UNCHANGED <<mainvars, cfg, universe, ratio, fn_job, fn_items>>

CallScoreJob ==
  /\ fn_pc = "ready"
  /\ fn_pc' = "score_job"
  /\ fn_ret' = <<score_job(fn_job, cfg, universe.global_set, universe.brazil_set,
                           universe.extra_set)>>
  /\ UNCHANGED <<mainvars, cfg, universe, ratio, fn_job, fn_items>>

NextScore == CallMustBeFinanceDomain \/ CallScoreJob

SpecScore == InitScore /\ [][NextScore]_vars

\* C4: must_be_finance_domain is true of a title holding "cfo" or "chief
\* financial officer"; of any other title it is true exactly when
\* must_contain_any_of is empty or one of its terms is in the normalized title.
DomainCheckAsSpecified ==
  fn_pc = "must_be_finance_domain" =>
    LET t == norm(fn_job.title)
    IN  fn_ret[1] = (\/ Contains("cfo", t)
                     \/ Contains("chief financial officer", t)
                     \/ cfg.must_contain_any_of = <<>>
                     \/ \E i \in 1..Len(cfg.must_contain_any_of) :
                          Contains(norm(cfg.must_contain_any_of[i]), t))

\* C7: score_job returns an integer of 0..100, and 0 when should_exclude_title
\* holds of the title, whatever the title match and the bonuses.
ScoreInRangeAndVetoed ==
  fn_pc = "score_job" =>
    /\ fn_ret[1] \in 0..100
    /\ should_exclude_title(fn_job.title, cfg) => fn_ret[1] = 0

\* C7: an excluded title that matches a target keyword, of a company whose
\* bonus alone exceeds 100
VetoWitness ==
  /\ fn_pc = "score_job"
  /\ should_exclude_title(fn_job.title, cfg)
  /\ must_be_finance_domain(fn_job.title, cfg)
  /\ title_match_score(fn_job.title, cfg) > 0
  /\ company_bonus(fn_job.company, TRUE, universe.global_set, universe.brazil_set,
                   universe.extra_set, cfg) > 100

(***************************************************************************)
(* dedupe on its own: Init draws the list.                                 *)
(***************************************************************************)
MaxLen == 3

DedupeUrls == {Null, "", " ", "a", " a", "b "}

DedupePostings ==
  {Posting(title, "", "", url, "", "remotive") : title \in {"x", "y"}, url \in DedupeUrls}

SeqsUpTo(S, n) == UNION {[1..k -> S] : k \in 0..n}

InitDedupe ==
  /\ MainIdle
  /\ cfg = Config(<<>>, <<>>, <<>>, BoardProfile)
  /\ universe = NoUniverse
  /\ ratio = 0
  /\ fn_pc = "ready"
  /\ fn_job = NoJob
  /\ fn_items \in SeqsUpTo(DedupePostings, MaxLen)
  /\ fn_ret = <<>>

\* fn_ret holds the results of the calls, in order
CallDedupe ==
  /\ fn_pc = "ready"
  /\ fn_pc' = "dedupe"
  /\ fn_ret' = <<dedupe(fn_items)>>
  /\ UNCHANGED <<mainvars, cfg, universe, ratio, fn_job, fn_items>>

CallDedupeAgain ==
  /\ fn_pc = "dedupe"
  /\ fn_pc' = "dedupe_dedupe"
  /\ fn_ret' = Append(fn_ret, dedupe(fn_ret[1]))
  /\ UNCHANGED <<mainvars, cfg, universe, ratio, fn_job, fn_items>>

NextDedupe == CallDedupe \/ CallDedupeAgain

SpecDedupe == InitDedupe /\ [][NextDedupe]_vars

\* q is p with some elements removed: f maps the positions of q into p
IsSubsequence(q, p) ==
  \E f \in [1..Len(q) -> 1..Len(p)] :
    /\ \A i \in 1..Len(q) : q[i] = p[f[i]]
    /\ \A i, k \in 1..Len(q) : i < k => f[i] < f[k]

\* C8: dedupe(dedupe(x)) = dedupe(x); dedupe(x) is a subsequence of x with no
\* empty URL and no URL twice, and holds the first posting of x of each URL.
DedupeContract ==
  /\ fn_pc \in {"dedupe", "dedupe_dedupe"} =>
       LET out == fn_ret[1]
       IN  /\ IsSubsequence(out, fn_items)
           /\ \A i \in 1..Len(out) : UrlOf(out[i]) # ""
           /\ \A i, k \in 1..Len(out) : i # k => UrlOf(out[i]) # UrlOf(out[k])
           /\ \A i \in 1..Len(fn_items) :
                (UrlOf(fn_items[i]) # ""
                   /\ \A k \in 1..(i - 1) : UrlOf(fn_items[k]) # UrlOf(fn_items[i]))
                => \E k \in 1..Len(out) : out[k] = fn_items[i]
  /\ fn_pc = "dedupe_dedupe" => fn_ret[2] = fn_ret[1]

\* C8: a list with an empty URL and two different postings of one URL, the
\* second written with surrounding blanks, once dedupe was applied twice
DedupeWitness ==
  /\ fn_pc = "dedupe_dedupe"
  /\ \E i \in 1..Len(fn_items) : UrlOf(fn_items[i]) = ""
  /\ \E i, k \in 1..Len(fn_items) :
       /\ i < k
       /\ fn_items[i] # fn_items[k]
       /\ fn_items[i].apply_url # fn_items[k].apply_url
       /\ UrlOf(fn_items[i]) = UrlOf(fn_items[k])
       /\ UrlOf(fn_items[i]) # ""

====
